---- MODULE Spec2Model ----
(***************************************************************************)
(* Model of the RAG chatbot's request handler (rag_chatbot/src/main.py),   *)
(* its query rewriter (rag_chatbot/utils/query_processor.py) and its       *)
(* prompt assembler (rag_chatbot/src/rag_chain.py).                        *)
(*                                                                         *)
(* A text is a sequence of tokens.  Text the code parses (a user query, a  *)
(* gateway response) is held one character per token; text the code only   *)
(* copies (the fixed prompts, a stored document) is held as one token.     *)
(***************************************************************************)
EXTENDS Integers, Sequences, FiniteSets, TLC

VARIABLES
    file,                  \* the conversations file (conversation.json)
    pc,                    \* position of chat_endpoint
    request,               \* the ChatRequest being handled
    session_id,            \* chat_endpoint local
    conversation,          \* chat_endpoint local: the loaded dict
    conversation_history,  \* chat_endpoint local: conversation["messages"]
    contextualized_query,  \* process_query local: Stage A output
    rephrased_queries,     \* chat_endpoint local: Stage B output
    qi,                    \* index of the retrieval loop over rephrased_queries
    context,               \* chat_endpoint local: the collected evidence
    messages,              \* chat_endpoint local: the prompt, then the record
    bot_response,          \* chat_endpoint local
    response,              \* what the last request returned to the client
    uuids,                 \* number of uuid4 identifiers drawn so far
    calls,                 \* history: external calls made by the current turn
    nrequests,             \* history: requests received so far
    okTurns,               \* history: successful turns in a row of the session on file
    collection,            \* the evidence store's chunks (ingestion is another program)
    fileAtStart,           \* history: the file as the current turn found it
    peer,                  \* chat_endpoint in a second worker process
    files,                 \* process_all_documents local: files not yet started
    tasks,                 \* chunks whose embed_and_store_chunk has not stored yet
    chunks,                \* history: every chunk chunk_document has returned
    store,                 \* the collection as ingestion writes it: id -> chunk
    moved                  \* files moved to processed_docs

vars == <<file, pc, request, session_id, conversation, conversation_history,
          contextualized_query, rephrased_queries, qi, context, messages,
          bot_response, response, uuids, calls, nrequests, okTurns, collection,
          fileAtStart, peer, files, tasks, chunks, store, moved>>

\* the state of the ingestion program, and the state of the API
ingestVars == <<files, tasks, chunks, store, moved>>
apiVars == <<file, pc, request, session_id, conversation, conversation_history,
             contextualized_query, rephrased_queries, qi, context, messages,
             bot_response, response, uuids, calls, nrequests, okTurns, collection,
             fileAtStart, peer>>

(***************************************************************************)
(* Bounds of the model.                                                    *)
(***************************************************************************)
\* requests handled in one behaviour of the handler
MaxRequests == 4
\* words of the longest user query drawn for the rewriter
MaxWords == 12
\* messages of the longest history handed to the rewriter or the assembler
MaxHistory == 8
\* items of the longest list drawn from every item text for Stage B
MaxItems == 2
\* sub-queries of the longest list handed to the retrieval loop
MaxSubQueries == 2
\* chunk_size of the chunker, in characters (config rag.chunk_size, scaled down)
ChunkSize == 8

(***************************************************************************)
(* Python string operations on texts.                                      *)
(***************************************************************************)
\* str.isspace for one character
IsSpace(c) == c \in {" ", "\n", "\t"}

\* str.isdigit for one character
IsDigit(c) == c \in {"0", "1", "2", "3", "4", "5", "6", "7", "8", "9"}

RECURSIVE LStrip(_)
LStrip(s) == IF s # <<>> /\ IsSpace(Head(s)) THEN LStrip(Tail(s)) ELSE s

RECURSIVE RStrip(_)
RStrip(s) ==
    IF s # <<>> /\ IsSpace(s[Len(s)]) THEN RStrip(SubSeq(s, 1, Len(s) - 1)) ELSE s

\* str.strip()
Strip(s) == RStrip(LStrip(s))

\* len(s.split()): the number of maximal runs of non-whitespace characters
RECURSIVE WordCount(_)
WordCount(s) ==
    IF s = <<>> THEN 0
    ELSE IF IsSpace(Head(s)) THEN WordCount(Tail(s))
    ELSE IF Len(s) = 1 \/ IsSpace(s[2]) THEN 1 + WordCount(Tail(s))
    ELSE WordCount(Tail(s))

\* index of the first occurrence of character c in s, 0 when there is none
RECURSIVE FirstIndex(_, _)
FirstIndex(s, c) ==
    IF s = <<>> THEN 0
    ELSE IF Head(s) = c THEN 1
    ELSE LET r == FirstIndex(Tail(s), c) IN IF r = 0 THEN 0 ELSE r + 1

\* s.split('\n'): always at least one line
RECURSIVE SplitLines(_)
SplitLines(s) ==
    LET i == FirstIndex(s, "\n") IN
    IF i = 0 THEN <<s>>
    ELSE <<SubSeq(s, 1, i - 1)>> \o SplitLines(SubSeq(s, i + 1, Len(s)))

\* line.split('.')[-1]: what follows the last period
RECURSIVE AfterLastDot(_)
AfterLastDot(line) ==
    LET i == FirstIndex(line, ".") IN
    IF i = 0 THEN line ELSE AfterLastDot(SubSeq(line, i + 1, Len(line)))

\* line.split('.', 1)[-1]: what follows the first period, the whole line without one
AfterFirstDot(line) ==
    LET i == FirstIndex(line, ".") IN
    IF i = 0 THEN line ELSE SubSeq(line, i + 1, Len(line))

\* the first n elements of a list: lst[:n]
FirstN(lst, n) == IF Len(lst) <= n THEN lst ELSE SubSeq(lst, 1, n)

\* the last n + 1 elements of a list: lst[-(n + 1):]
LastNPlusOne(lst, n) ==
    IF Len(lst) <= n + 1 THEN lst ELSE SubSeq(lst, Len(lst) - n, Len(lst))

\* the last n elements of a list: lst[-n:]
LastN(lst, n) ==
    IF Len(lst) <= n THEN lst ELSE SubSeq(lst, Len(lst) - n + 1, Len(lst))

(***************************************************************************)
(* Messages, gateway outcomes and the fixed prompts.                       *)
(***************************************************************************)
Msg(role, content) == [role |-> role, content |-> content]

\* an external call either raises or returns a text
Raised == [ok |-> FALSE, text |-> <<>>]
Returned(text) == [ok |-> TRUE, text |-> text]

\* one entry of the history of external calls: a call that raised, or one
\* that returned nothing the handler reads
Call(api, arg, ok) == [api |-> api, arg |-> arg, ok |-> ok, result |-> <<>>]

\* a call that returned `result`
CallReturning(api, arg, result) ==
    [api |-> api, arg |-> arg, ok |-> TRUE, result |-> result]

\* the entry of a gateway call with the given outcome
GatewayCall(msgs, outcome) ==
    IF outcome.ok THEN CallReturning("complete", msgs, outcome.text)
    ELSE Call("complete", msgs, FALSE)

\* RAGChatbot._build_system_prompt
SystemPrompt == <<"You are an AI assistant for Acme Corp's HR policies. [...]">>

\* the system instruction of Stage A
ContextualizerPrompt == <<"You are a query contextualizer. [...]">>

\* the system instruction of Stage B
DecomposerPrompt == <<"Split query into multiple questions if needed. Return numbered list. [...]">>

(***************************************************************************)
(* QueryProcessor                                                          *)
(***************************************************************************)
\* the word-count threshold of Stage A
ContextWordLimit == 10

\* SkipContextualize with `and` for `or` in the skip condition
SkipContextualizeBothNeeded(query, history) ==
    history = <<>> /\ WordCount(query) > 10

\* Stage A returns the query as it is, without a gateway call
SkipContextualize(query, history) ==
    history = <<>> \/ WordCount(query) > ContextWordLimit

\* ContextualizeMessages with the whole history for conversation_history[-2:]
ContextualizeMessagesWholeHistory(query, history) ==
    <<Msg("system", ContextualizerPrompt)>> \o history \o <<Msg("user", query)>>

\* the messages Stage A sends
ContextualizeMessages(query, history) ==
    <<Msg("system", ContextualizerPrompt)>> \o LastN(history, 2)
        \o <<Msg("user", query)>>

\* ContextualizeQuery whose except branch returns query.strip()
ContextualizeQueryStripsOnFailure(query, history, outcome) ==
    IF history = <<>> \/ WordCount(query) > 10 THEN query
    ELSE Strip(IF outcome.ok THEN outcome.text ELSE query)

\* QueryProcessor._contextualize_query, given the outcome of its gateway call
ContextualizeQuery(query, history, outcome) ==
    IF SkipContextualize(query, history) THEN query
    ELSE IF outcome.ok THEN Strip(outcome.text)
    ELSE query

\* the gateway calls _contextualize_query makes
ContextualizeCalls(query, history, outcome) ==
    IF SkipContextualize(query, history) THEN <<>>
    ELSE <<GatewayCall(ContextualizeMessages(query, history), outcome)>>

\* the loop over the response lines of Stage B
RECURSIVE ParseLines(_)
ParseLines(lines) ==
    IF lines = <<>> THEN <<>>
    ELSE LET line == Strip(Head(lines))
             q    == Strip(AfterFirstDot(line))
         IN  IF line # <<>> /\ (IsDigit(line[1]) \/ line[1] = "-") /\ q # <<>>
             THEN <<q>> \o ParseLines(Tail(lines))
             ELSE ParseLines(Tail(lines))

\* the messages Stage B sends
DecomposeMessages(query) ==
    <<Msg("system", DecomposerPrompt), Msg("user", query)>>

\* DecomposeQuery without `if not queries: queries = [response.strip()]`
DecomposeQueryNoFallback(query, outcome) ==
    IF ~outcome.ok THEN <<query>>
    ELSE ParseLines(SplitLines(Strip(outcome.text)))

\* DecomposeQuery whose except branch returns [query.strip()]
DecomposeQueryStripsOnFailure(query, outcome) ==
    IF ~outcome.ok THEN <<Strip(query)>>
    ELSE LET queries == ParseLines(SplitLines(Strip(outcome.text)))
         IN  IF queries = <<>> THEN <<Strip(outcome.text)>> ELSE queries

\* DecomposeQuery with `queries = [response]` for the fallback
DecomposeQueryRawFallback(query, outcome) ==
    IF ~outcome.ok THEN <<query>>
    ELSE LET queries == ParseLines(SplitLines(Strip(outcome.text)))
         IN  IF queries = <<>> THEN <<outcome.text>> ELSE queries

\* QueryProcessor._decompose_query, given the outcome of its gateway call
DecomposeQuery(query, outcome) ==
    IF ~outcome.ok THEN <<query>>
    ELSE LET queries == ParseLines(SplitLines(Strip(outcome.text)))
         IN  IF queries = <<>> THEN <<Strip(outcome.text)>> ELSE queries

\* QueryProcessor.process_query, given the outcomes of its two gateway calls
ProcessQueryResult(query, history, outcomeA, outcomeB) ==
    DecomposeQuery(ContextualizeQuery(query, history, outcomeA), outcomeB)

(***************************************************************************)
(* RAGChatbot._build_prompt                                                *)
(***************************************************************************)
\* the history window of the prompt
HistoryWindow == 6

RECURSIVE JoinTexts(_, _)
JoinTexts(parts, sep) ==
    IF parts = <<>> THEN <<>>
    ELSE IF Len(parts) = 1 THEN parts[1]
    ELSE parts[1] \o sep \o JoinTexts(Tail(parts), sep)

\* str() of a Python list whose items have the given texts
ListRepr(parts) == <<"[">> \o JoinTexts(parts, <<", ">>) \o <<"]">>

\* repr() of a document string
StrRepr(doc) == <<"'">> \o doc \o <<"'">>

\* str() of a list of documents
DocsRepr(docs) == ListRepr([i \in 1..Len(docs) |-> StrRepr(docs[i])])

\* str() of one result's "documents": a list of lists of documents
DocumentsRepr(documents) ==
    ListRepr([i \in 1..Len(documents) |-> DocsRepr(documents[i])])

\* str() of the context list chat_endpoint hands over
ContextRepr(ctx) == ListRepr([i \in 1..Len(ctx) |-> DocumentsRepr(ctx[i])])

\* the content of the final user message
UserPrompt(query, ctx) ==
    <<"Context from HR documents:", "\n">> \o ContextRepr(ctx)
        \o <<"\n", "\n", "Question: ">> \o query

\* the list when nothing is popped
TrimPromptNever(msgs) == msgs

\* the list after `if len(messages)>2: messages.pop(0)`
TrimPrompt(msgs) == IF Len(msgs) > 2 THEN Tail(msgs) ELSE msgs

\* RAGChatbot._build_prompt
BuildPromptResult(query, ctx, history) ==
    TrimPrompt(<<Msg("system", SystemPrompt)>> \o LastN(history, HistoryWindow))
        \o <<Msg("user", UserPrompt(query, ctx))>>

(***************************************************************************)
(* Session identifiers and the conversations file.                        *)
(***************************************************************************)
\* a request without session_id (None)
NoSid == [src |-> "none", n |-> 0]
\* a session_id the client sent
ClientSid(n) == [src |-> "client", n |-> n]
\* the session_id "" (the empty string)
EmptySid == [src |-> "client", n |-> 0]
\* an identifier made once and returned by every call
UuidSidFixed(n) == [src |-> "uuid", n |-> 1]

\* the n-th identifier uuid.uuid4() returns
UuidSid(n) == [src |-> "uuid", n |-> n]

\* bool(session_id) in `request.session_id or str(uuid.uuid4())`
Truthy(sid) == sid \notin {NoSid, EmptySid}

\* the file is absent, unreadable as JSON, or holds the one record last saved
AbsentFile == [kind |-> "absent", session_id |-> NoSid, messages |-> <<>>]
CorruptFile == [kind |-> "corrupt", session_id |-> NoSid, messages |-> <<>>]
\* the file as open(conversations, "w") leaves it: no bytes
EmptyFile == [kind |-> "empty", session_id |-> NoSid, messages |-> <<>>]
RecordFile(conv) ==
    [kind |-> "record", session_id |-> conv.session_id, messages |-> conv.messages]

\* load_conversation without the comparison of session ids
LoadConversationAnyRecord(f, sid) ==
    IF f.kind = "record"
    THEN [session_id |-> f.session_id, messages |-> f.messages]
    ELSE [session_id |-> sid, messages |-> <<>>]

\* load_conversation, reading file f
LoadConversation(f, sid) ==
    IF f.kind = "record" /\ f.session_id = sid
    THEN [session_id |-> f.session_id, messages |-> f.messages]
    ELSE [session_id |-> sid, messages |-> <<>>]

\* save_conversation: the file after the dump of conv
SaveConversation(conv) == RecordFile(conv)

(***************************************************************************)
(* The evidence store, at its query interface.                             *)
(***************************************************************************)
\* the semantic query asks for 5 results, the keyword query for 1
SemanticK == 5
KeywordK == 1

\* the stored text of a chunk: distinct chunks hold distinct texts
Document(id) == <<"chunk ", id>>

\* sequences of n distinct chunk ids of set S: the rankings a query may return
RECURSIVE Rankings(_, _)
Rankings(S, n) ==
    IF n = 0 \/ S = {} THEN {<<>>}
    ELSE UNION {{<<c>> \o r : r \in Rankings(S \ {c}, n - 1)} : c \in S}

\* collection.query(..., n_results=k): min(k, count) chunks, best first, as the
\* lists "ids" and "documents" hold them (one inner list per query embedding)
QueryResults(k) ==
    {[ids |-> <<r>>, documents |-> <<[i \in 1..Len(r) |-> Document(r[i])]>>] :
        r \in Rankings(collection, k)}

(***************************************************************************)
(* chat_endpoint, step by step.                                            *)
(***************************************************************************)
NoRequest == [session_id |-> NoSid, user_message |-> <<>>]
NoConversation == [session_id |-> NoSid, messages |-> <<>>]
NoResponse == [status |-> 0, session_id |-> NoSid, bot_message |-> <<>>, detail |-> ""]

\* the locals of a handler that is not running
LocalsCleared ==
    /\ request' = NoRequest
    /\ session_id' = NoSid
    /\ conversation' = NoConversation
    /\ conversation_history' = <<>>
    /\ contextualized_query' = <<>>
    /\ rephrased_queries' = <<>>
    /\ qi' = 0
    /\ context' = <<>>
    /\ messages' = <<>>
    /\ bot_response' = <<>>
    /\ calls' = <<>>
    /\ fileAtStart' = AbsentFile

\* `except Exception as e`: the request ends as HTTPException(500, str(e))
RaiseHTTP500(e) ==
    /\ pc' = "idle"
    /\ response' = [status |-> 500, session_id |-> NoSid, bot_message |-> <<>>,
                    detail |-> e]
    /\ LocalsCleared
    /\ UNCHANGED <<peer, ingestVars, file, uuids, okTurns, collection, nrequests>>

\* a request arrives: the session_id is fixed and the conversation loaded
Receive(Sids, Queries) ==
    /\ pc = "idle"
    /\ nrequests < MaxRequests
    /\ \E sid \in Sids, user_message \in Queries :
        LET id == IF Truthy(sid) THEN sid ELSE UuidSid(uuids + 1)
            conv == LoadConversation(file, id)
        IN  /\ request' = [session_id |-> sid, user_message |-> user_message]
            /\ session_id' = id
            /\ uuids' = IF Truthy(sid) THEN uuids ELSE uuids + 1
            /\ conversation' = conv
            /\ conversation_history' = conv.messages
    /\ pc' = "process_query"
    /\ nrequests' = nrequests + 1
    /\ calls' = <<>>
    /\ fileAtStart' = file
    /\ response' = NoResponse
    /\ UNCHANGED <<peer, ingestVars, file, contextualized_query, rephrased_queries, qi, context,
                   messages, bot_response, okTurns, collection>>

\* query_processor.process_query(request.user_message, conversation_history)
ProcessQuery(OutcomesA, OutcomesB) ==
    /\ pc = "process_query"
    /\ \E outcomeA \in OutcomesA, outcomeB \in OutcomesB :
        LET q == ContextualizeQuery(request.user_message, conversation_history, outcomeA)
        IN  /\ contextualized_query' = q
            /\ rephrased_queries' = DecomposeQuery(q, outcomeB)
            /\ calls' = calls
                 \o ContextualizeCalls(request.user_message, conversation_history, outcomeA)
                 \o <<GatewayCall(DecomposeMessages(q), outcomeB)>>
    /\ pc' = "retrieve"
    /\ qi' = 1
    /\ context' = <<>>
    /\ UNCHANGED <<peer, ingestVars, file, request, session_id, conversation, conversation_history,
                   messages, bot_response, response, uuids, nrequests, okTurns,
                   collection, fileAtStart>>

\* embs[0]: the vector create_embeddings returns for a text
Embedding(query) == [of |-> query]

\* RetrieveCalls of a loop that makes the keyword query before the semantic one
RetrieveCallsKeywordFirst(query, semantic_results, keyword_results) ==
    <<CallReturning("embed", <<query>>, <<Embedding(query)>>),
      CallReturning("query", [query_embeddings |-> <<Embedding(query)>>,
                              query_texts |-> <<query>>, n_results |-> KeywordK],
                    keyword_results),
      CallReturning("query", [query_embeddings |-> <<Embedding(query)>>,
                              query_texts |-> <<>>, n_results |-> SemanticK],
                    semantic_results)>>

\* the calls of one iteration of the loop when none raises, with what the two
\* store queries returned
RetrieveCalls(query, semantic_results, keyword_results) ==
    <<CallReturning("embed", <<query>>, <<Embedding(query)>>),
      CallReturning("query", [query_embeddings |-> <<Embedding(query)>>,
                              query_texts |-> <<>>, n_results |-> SemanticK],
                    semantic_results),
      CallReturning("query", [query_embeddings |-> <<Embedding(query)>>,
                              query_texts |-> <<query>>, n_results |-> KeywordK],
                    keyword_results)>>

\* RetrieveOne with the two appends in the other order
RetrieveOneKeywordFirst ==
    /\ pc = "retrieve"
    /\ qi <= Len(rephrased_queries)
    /\ \/ RaiseHTTP500("create_embeddings raised")
       \/ RaiseHTTP500("semantic query raised")
       \/ RaiseHTTP500("keyword query raised")
       \/ \E semantic_results \in QueryResults(SemanticK),
             keyword_results \in QueryResults(KeywordK) :
            /\ context' = context \o <<keyword_results.documents,
                                       semantic_results.documents>>
            /\ qi' = qi + 1
            /\ calls' = calls \o RetrieveCalls(rephrased_queries[qi],
                                               semantic_results, keyword_results)
            /\ UNCHANGED <<peer, ingestVars, file, pc, request, session_id, conversation,
                           conversation_history, contextualized_query,
                           rephrased_queries, messages, bot_response,
                           response, uuids, nrequests, okTurns, collection, fileAtStart>>

\* one iteration of `for query in rephrased_queries`: create_embeddings, the
\* semantic query, the keyword query, the two appends; any of the calls may raise
RetrieveOne ==
    /\ pc = "retrieve"
    /\ qi <= Len(rephrased_queries)
    /\ \/ RaiseHTTP500("create_embeddings raised")
       \/ RaiseHTTP500("semantic query raised")
       \/ RaiseHTTP500("keyword query raised")
       \/ \E semantic_results \in QueryResults(SemanticK),
             keyword_results \in QueryResults(KeywordK) :
            /\ context' = context \o <<semantic_results.documents,
                                       keyword_results.documents>>
            /\ qi' = qi + 1
            /\ calls' = calls \o RetrieveCalls(rephrased_queries[qi],
                                               semantic_results, keyword_results)
            /\ UNCHANGED <<peer, ingestVars, file, pc, request, session_id, conversation,
                           conversation_history, contextualized_query,
                           rephrased_queries, messages, bot_response,
                           response, uuids, nrequests, okTurns, collection, fileAtStart>>

\* BuildPrompt in a handler that saves the conversation before it asks for the answer
BuildPromptThenSave ==
    /\ pc = "retrieve"
    /\ qi > Len(rephrased_queries)
    /\ messages' = BuildPromptResult(request.user_message, context, conversation_history)
    /\ file' = SaveConversation([session_id |-> session_id, messages |-> messages'])
    /\ pc' = "complete"
    /\ UNCHANGED <<peer, ingestVars, request, session_id, conversation, conversation_history,
                   contextualized_query, rephrased_queries, qi, context,
                   bot_response, response, uuids, calls, nrequests, okTurns,
                   collection, fileAtStart>>

\* BuildPrompt handing over the query Stage A returned for the question
BuildPromptRewrittenQuery ==
    /\ pc = "retrieve"
    /\ qi > Len(rephrased_queries)
    /\ messages' = BuildPromptResult(contextualized_query, context, conversation_history)
    /\ pc' = "complete"
    /\ UNCHANGED <<peer, ingestVars, file, request, session_id, conversation, conversation_history,
                   contextualized_query, rephrased_queries, qi, context,
                   bot_response, response, uuids, calls, nrequests, okTurns,
                   collection, fileAtStart>>

\* chatbot._build_prompt(request.user_message, context, conversation_history)
BuildPrompt ==
    /\ pc = "retrieve"
    /\ qi > Len(rephrased_queries)
    /\ messages' = BuildPromptResult(request.user_message, context, conversation_history)
    /\ pc' = "complete"
    /\ UNCHANGED <<peer, ingestVars, file, request, session_id, conversation, conversation_history,
                   contextualized_query, rephrased_queries, qi, context,
                   bot_response, response, uuids, calls, nrequests, okTurns,
                   collection, fileAtStart>>

\* chat_client.complete(messages, ...) and the append of the reply
Complete(Outcomes) ==
    /\ pc = "complete"
    /\ \E outcome \in Outcomes :
        IF outcome.ok
           THEN /\ bot_response' = outcome.text
                /\ calls' = calls \o <<GatewayCall(messages, outcome)>>
                /\ messages' = Append(messages, Msg("assistant", outcome.text))
                /\ pc' = "save"
                /\ UNCHANGED <<peer, ingestVars, file, request, session_id, conversation,
                               conversation_history, contextualized_query,
                               rephrased_queries, qi, context, response, uuids,
                               nrequests, okTurns, collection, fileAtStart>>
           ELSE RaiseHTTP500("complete raised")

\* the conversation is updated and written to the file
Save ==
    /\ pc = "save"
    /\ conversation' = [session_id |-> session_id, messages |-> messages]
    /\ file' = SaveConversation(conversation')
    /\ okTurns' = IF file.kind = "record" /\ file.session_id = session_id
                  THEN okTurns + 1 ELSE 1
    /\ pc' = "respond"
    /\ UNCHANGED <<peer, ingestVars, request, session_id, conversation_history, contextualized_query,
                   rephrased_queries, qi, context, messages, bot_response,
                   response, uuids, calls, nrequests, collection, fileAtStart>>

\* return ChatResponse(session_id, bot_message)
Respond ==
    /\ pc = "respond"
    /\ response' = [status |-> 200, session_id |-> session_id,
                    bot_message |-> bot_response, detail |-> ""]
    /\ pc' = "idle"
    /\ LocalsCleared
    /\ UNCHANGED <<peer, ingestVars, file, uuids, nrequests, okTurns, collection>>

(***************************************************************************)
(* The handler serving requests one after the other.                       *)
(***************************************************************************)
\* n words separated by single blanks
RECURSIVE Words(_)
Words(n) ==
    IF n = 0 THEN <<>>
    ELSE IF n = 1 THEN <<"w">>
    ELSE <<"w", " ">> \o Words(n - 1)

\* the session ids a behaviour may meet
AllSids == {ClientSid(1), ClientSid(2)} \cup {UuidSid(n) : n \in 1..MaxRequests}

\* what clients send
RequestSids == {ClientSid(1), ClientSid(2), NoSid, EmptySid}
UserQueries == {<<"h", "i", "?">>, Words(ContextWordLimit + 1)}

\* what the gateway may answer to Stage A, to Stage B and to the final call
RewriteOutcomes == {Raised, Returned(<<" ", "h", "i", " ", "y", "o", "u", "?", "\n">>)}
SplitOutcomes ==
    {Raised, Returned(<<"1", ".", " ", "a", "?", "\n", "2", ".", " ", "b", "?">>)}
AnswerOutcomes == {Raised, Returned(<<"answer">>)}

\* the stores the handler may run against
Collections == {{}, {"c1"}}

\* the second worker before its request, and ingestion not running
NoPeer ==
    [pc |-> "idle", session_id |-> NoSid, user_message |-> <<>>,
     conversation_history |-> <<>>, messages |-> <<>>,
     sawAtOpen |-> "", seenAtOpen |-> "", wroteLast |-> FALSE]
NoIngestion ==
    /\ files = {}
    /\ tasks = {}
    /\ chunks = <<>>
    /\ store = {}
    /\ moved = {}

\* everything but the file and the store, when n requests have been received
\* and none is being handled
IdleAfter(n) ==
    /\ peer = NoPeer
    /\ pc = "idle"
    /\ request = NoRequest
    /\ session_id = NoSid
    /\ conversation = NoConversation
    /\ conversation_history = <<>>
    /\ contextualized_query = <<>>
    /\ rephrased_queries = <<>>
    /\ qi = 0
    /\ context = <<>>
    /\ messages = <<>>
    /\ bot_response = <<>>
    /\ response = NoResponse
    /\ uuids = 0
    /\ calls = <<>>
    /\ nrequests = n
    /\ okTurns = 0
    /\ fileAtStart = AbsentFile

\* the same before the first request
InitHandler == IdleAfter(0) /\ NoIngestion

\* the handler at position p of its first request, with the given user
\* message, loaded history, collected context and sub-queries
InitWith(p, q, h, c, rq) ==
    /\ peer = NoPeer
    /\ NoIngestion
    /\ pc = p
    /\ request = [session_id |-> ClientSid(1), user_message |-> q]
    /\ session_id = ClientSid(1)
    /\ conversation = [session_id |-> ClientSid(1), messages |-> h]
    /\ conversation_history = h
    /\ contextualized_query = <<>>
    /\ rephrased_queries = rq
    /\ qi = 1
    /\ context = c
    /\ messages = <<>>
    /\ bot_response = <<>>
    /\ response = NoResponse
    /\ uuids = 0
    /\ calls = <<>>
    /\ nrequests = 1
    /\ okTurns = 0
    /\ fileAtStart = AbsentFile

\* the same, before process_query has returned sub-queries
InitAt(p, q, h, c) == InitWith(p, q, h, c, <<>>)

Init ==
    /\ InitHandler
    /\ file = AbsentFile
    /\ collection \in Collections

Next ==
    \/ Receive(RequestSids, UserQueries)
    \/ ProcessQuery(RewriteOutcomes, SplitOutcomes)
    \/ RetrieveOne
    \/ BuildPrompt
    \/ Complete(AnswerOutcomes)
    \/ Save
    \/ Respond

Spec == Init /\ [][Next]_vars

(***************************************************************************)
(* process_query on its own: every drawn query and history, every outcome  *)
(* of the two gateway calls.                                               *)
(***************************************************************************)
DigitChars == <<"0", "1", "2", "3", "4", "5", "6", "7", "8", "9">>

\* the decimal digits of n
RECURSIVE Decimal(_)
Decimal(n) ==
    IF n < 10 THEN <<DigitChars[n + 1]>>
    ELSE Decimal(n \div 10) \o <<DigitChars[(n % 10) + 1]>>

\* a conversation of n messages, user and assistant in turn, all different
Alternating(n) ==
    [i \in 1..n |-> Msg(IF i % 2 = 1 THEN "user" ELSE "assistant",
                        <<"m">> \o Decimal(i))]

\* queries of 0..MaxWords words, and some with other whitespace in them
RewriterQueries ==
    {Words(n) : n \in 0..MaxWords}
    \cup {<<" ">>, <<" ", "w", " ">>, <<"w", " ", " ", "w">>, <<"w", "\n", "w">>,
          <<"\t">> \o Words(ContextWordLimit) \o <<"\n">>,
          <<"w", "\t">> \o Words(ContextWordLimit)}

RewriterHistories == {Alternating(n) : n \in 0..3}

\* what the gateway may return to Stage A
RewriterOutcomesA ==
    {Raised, Returned(<<>>), Returned(<<" ", "\n">>), Returned(<<"r">>),
     Returned(<<" ", "r", " ", "r", "?", "\n">>),
     Returned(<<"1", ".", " ", "r">>)}

\* the texts of list items: trimmed, not empty, on one line
ItemTexts == {<<"a", "?">>, <<"a", ".", "b">>, <<"2", " ", "b">>}

\* the lists of 1..MaxItems item texts
ItemLists == UNION {[1..k -> ItemTexts] : k \in 1..MaxItems}

\* the list the instruction of Stage B asks for: lines "<i>. <text>"
NumberedList(texts) ==
    JoinTexts([i \in 1..Len(texts) |-> Decimal(i) \o <<".", " ">> \o texts[i]],
              <<"\n">>)

\* the same items as hyphen bullets: lines "- <text>"
BulletList(texts) ==
    JoinTexts([i \in 1..Len(texts) |-> <<"-", " ">> \o texts[i]], <<"\n">>)

\* a numbered list long enough for a number of two digits
LongItems == [i \in 1..10 |-> <<"q", "?">>]

\* the characters of the short responses to Stage B
ResponseChars == {"1", "-", ".", " ", "\n", "a"}

\* what the gateway may return to Stage B: every response of up to two
\* characters, and lists of the shapes the instruction asks for
RewriterOutcomesB ==
    {Raised}
    \cup {Returned(t) : t \in UNION {[1..n -> ResponseChars] : n \in 0..2}}
    \cup {Returned(t) : t \in {
            <<"1", ".", " ", "a", "?">>,
            <<"1", ".", " ", "a", "?", "\n", "2", ".", " ", "b", "?">>,
            <<"1", ".", "a", "\n", "\n", " ", "2", ".", "b", " ", "\n">>,
            <<"-", " ", "a", "\n", "-", " ", "b">>,
            <<"1", "0", ".", " ", "a">>,
            <<"1", ".", " ", "a", ".", "b">>,
            <<"1", ")", " ", "a">>,
            <<"a", " ", "b", "?">>,
            <<"a", ".", "\n", "1", ".", " ", "b">>,
            <<"1", ".", "\n", "2", ".", " ">>,
            <<"a", "\n", " ", "1", ".", " ", "b">>,
            NumberedList(LongItems)}}
    \cup {Returned(NumberedList(texts)) : texts \in ItemLists}
    \cup {Returned(BulletList(texts)) : texts \in ItemLists}

InitQP ==
    /\ file = AbsentFile
    /\ collection = {}
    /\ \E q \in RewriterQueries, h \in RewriterHistories :
        InitAt("process_query", q, h, <<>>)

NextQP == ProcessQuery(RewriterOutcomesA, RewriterOutcomesB)

SpecQP == InitQP /\ [][NextQP]_vars

(***************************************************************************)
(* _build_prompt on its own: every drawn query, context and history.       *)
(***************************************************************************)
\* the histories of n messages, each of role user or assistant, all different
Histories(n) ==
    {[i \in 1..n |-> Msg(roles[i], <<"m">> \o Decimal(i))] :
        roles \in [1..n -> {"user", "assistant"}]}

\* histories of up to MaxHistory messages, also behind a system message as
\* the file holds them after a first turn
PromptHistories ==
    LET H == UNION {Histories(n) : n \in 0..MaxHistory}
    IN  H \cup {<<Msg("system", SystemPrompt)>> \o h : h \in {g \in H : Len(g) < MaxHistory}}

PromptQueries == {<<"h", "i", "?">>, <<>>}

\* no sub-query, one sub-query against an empty collection, and the evidence
\* of one sub-query
PromptContexts ==
    {<<>>,
     << <<<<>>>>, <<<<>>>> >>,
     << <<<<Document("c1"), Document("c2")>>>>, <<<<Document("c1")>>>> >>}

InitPrompt ==
    /\ file = AbsentFile
    /\ collection = {}
    /\ \E q \in PromptQueries, c \in PromptContexts, h \in PromptHistories :
        InitAt("retrieve", q, h, c)

NextPrompt == BuildPrompt

SpecPrompt == InitPrompt /\ [][NextPrompt]_vars

(***************************************************************************)
(* The retrieval loop on its own: every drawn list of sub-queries against  *)
(* every drawn collection, every ranking the store may return.             *)
(***************************************************************************)
SubQueryTexts == {<<"a", "?">>, <<"b", "?">>}

\* what process_query may have returned: 1..MaxSubQueries sub-queries
SubQueryLists == UNION {[1..n -> SubQueryTexts] : n \in 1..MaxSubQueries}

RetrieveCollections == {{}, {"c1"}, {"c1", "c2", "c3"}}

InitRetrieve ==
    /\ file = AbsentFile
    /\ collection \in RetrieveCollections
    /\ \E rq \in SubQueryLists : InitWith("retrieve", <<"h", "i", "?">>, <<>>, <<>>, rq)

NextRetrieve == RetrieveOne

SpecRetrieve == InitRetrieve /\ [][NextRetrieve]_vars

(***************************************************************************)
(* load_conversation on its own: every drawn request against every state   *)
(* the conversations file may be in.                                       *)
(***************************************************************************)
\* no file, a file without bytes, a file that is no JSON, the record of a
\* session
LoadFiles ==
    {AbsentFile, EmptyFile, CorruptFile}
    \cup {RecordFile([session_id |-> ClientSid(n), messages |-> Alternating(2)]) :
             n \in 1..2}

InitLoad ==
    /\ InitHandler
    /\ file \in LoadFiles
    /\ collection = {}

NextLoad == Receive(RequestSids, RewriterQueries)

SpecLoad == InitLoad /\ [][NextLoad]_vars

(***************************************************************************)
(* Two worker processes on one conversations file: chat_endpoint has no    *)
(* await, so two turns overlap only across processes. Each worker serves   *)
(* one request; save_conversation is the open that truncates and the       *)
(* write at the close.                                                     *)
(***************************************************************************)
\* the length of json.dump's output for the messages, compared by the number
\* of their characters (a fixed text counts the same in every record)
RECURSIVE DumpLength(_)
DumpLength(msgs) ==
    IF msgs = <<>> THEN 0 ELSE Len(Head(msgs).content) + 1 + DumpLength(Tail(msgs))

\* the file after a process that opened it with "w" writes the dump of conv
\* at offset 0 and closes: bytes another process wrote meanwhile beyond the
\* end of the dump stay, and the file is no JSON
Written(f, conv) ==
    IF f.kind \in {"absent", "empty"} THEN RecordFile(conv)
    ELSE IF f.kind = "record" /\ DumpLength(f.messages) <= DumpLength(conv.messages)
    THEN RecordFile(conv)
    ELSE CorruptFile

\* save_conversation, line 72: open(conversations, "w") truncates the file
SaveOpen ==
    /\ pc = "save"
    /\ conversation' = [session_id |-> session_id, messages |-> messages]
    /\ file' = EmptyFile
    /\ peer' = [peer EXCEPT !.seenAtOpen = peer.pc]
    /\ pc' = "write"
    /\ UNCHANGED <<ingestVars, request, session_id, conversation_history,
                   contextualized_query, rephrased_queries, qi, context, messages,
                   bot_response, response, uuids, calls, nrequests, okTurns,
                   collection, fileAtStart>>

\* save_conversation, line 73: json.dump and the close of the file
SaveWrite ==
    /\ pc = "write"
    /\ file' = Written(file, conversation)
    /\ okTurns' = IF fileAtStart.kind = "record" /\ fileAtStart.session_id = session_id
                  THEN okTurns + 1 ELSE 1
    /\ peer' = [peer EXCEPT !.wroteLast = FALSE]
    /\ pc' = "respond"
    /\ UNCHANGED <<ingestVars, request, session_id, conversation,
                   conversation_history, contextualized_query, rephrased_queries,
                   qi, context, messages, bot_response, response, uuids, calls,
                   nrequests, collection, fileAtStart>>

\* the second worker receives its request and loads the conversation
PeerReceive(Sids, Queries) ==
    /\ peer.pc = "idle"
    /\ \E sid \in Sids, user_message \in Queries :
        peer' = [peer EXCEPT !.pc = "loaded",
                             !.session_id = sid,
                             !.user_message = user_message,
                             !.conversation_history = LoadConversation(file, sid).messages]
    /\ UNCHANGED <<ingestVars, file, pc, request, session_id, conversation,
                   conversation_history, contextualized_query, rephrased_queries,
                   qi, context, messages, bot_response, response, uuids, calls,
                   nrequests, okTurns, collection, fileAtStart>>

\* the second worker from process_query to the append of the reply, none of
\* which reads or writes the file: one sub-query, every call returning
PeerAnswer(Outcomes) ==
    /\ peer.pc = "loaded"
    /\ \E outcome \in Outcomes, semantic_results \in QueryResults(SemanticK),
          keyword_results \in QueryResults(KeywordK) :
        /\ outcome.ok
        /\ peer' = [peer EXCEPT
                !.pc = "answered",
                !.messages = Append(
                    BuildPromptResult(peer.user_message,
                                      <<semantic_results.documents,
                                        keyword_results.documents>>,
                                      peer.conversation_history),
                    Msg("assistant", outcome.text))]
    /\ UNCHANGED <<ingestVars, file, pc, request, session_id, conversation,
                   conversation_history, contextualized_query, rephrased_queries,
                   qi, context, messages, bot_response, response, uuids, calls,
                   nrequests, okTurns, collection, fileAtStart>>

\* the second worker's open(conversations, "w")
PeerOpen ==
    /\ peer.pc = "answered"
    /\ file' = EmptyFile
    /\ peer' = [peer EXCEPT !.pc = "open", !.sawAtOpen = pc]
    /\ UNCHANGED <<ingestVars, pc, request, session_id, conversation,
                   conversation_history, contextualized_query, rephrased_queries,
                   qi, context, messages, bot_response, response, uuids, calls,
                   nrequests, okTurns, collection, fileAtStart>>

\* the second worker's json.dump and close
PeerWrite ==
    /\ peer.pc = "open"
    /\ file' = Written(file, [session_id |-> peer.session_id,
                              messages |-> peer.messages])
    /\ peer' = [peer EXCEPT !.pc = "done", !.wroteLast = TRUE]
    /\ UNCHANGED <<ingestVars, pc, request, session_id, conversation,
                   conversation_history, contextualized_query, rephrased_queries,
                   qi, context, messages, bot_response, response, uuids, calls,
                   nrequests, okTurns, collection, fileAtStart>>

\* the sessions and the file of the race: one session, which has a record
\* or none
RaceSids == {ClientSid(1)}
RaceFiles ==
    {AbsentFile,
     RecordFile([session_id |-> ClientSid(1), messages |-> Alternating(2)])}

InitRace ==
    /\ IdleAfter(MaxRequests - 1)
    /\ NoIngestion
    /\ file \in RaceFiles
    /\ collection = {}

NextRace ==
    \/ Receive(RaceSids, UserQueries)
    \/ ProcessQuery(RewriteOutcomes, SplitOutcomes)
    \/ RetrieveOne
    \/ BuildPrompt
    \/ Complete(AnswerOutcomes)
    \/ SaveOpen
    \/ SaveWrite
    \/ Respond
    \/ PeerReceive(RaceSids, UserQueries)
    \/ PeerAnswer(AnswerOutcomes)
    \/ PeerOpen
    \/ PeerWrite

SpecRace == InitRace /\ [][NextRace]_vars

(***************************************************************************)
(* Ingestion: DocumentChunker and DocumentProcessor.                       *)
(***************************************************************************)
UpperChars ==
    {"A", "B", "C", "D", "E", "F", "G", "H", "I", "J", "K", "L", "M",
     "N", "O", "P", "Q", "R", "S", "T", "U", "V", "W", "X", "Y", "Z"}

\* the character class [A-Z\s&]
IsTitleChar(c) == c \in UpperChars \/ IsSpace(c) \/ c = "&"

\* the length of the longest prefix of digits, of title characters
RECURSIVE DigitRun(_)
DigitRun(s) == IF s # <<>> /\ IsDigit(Head(s)) THEN 1 + DigitRun(Tail(s)) ELSE 0
RECURSIVE TitleRun(_)
TitleRun(s) == IF s # <<>> /\ IsTitleChar(Head(s)) THEN 1 + TitleRun(Tail(s)) ELSE 0

\* int() of a text of digits
RECURSIVE ToInt(_)
ToInt(digits) ==
    IF digits = <<>> THEN 0
    ELSE 10 * ToInt(SubSeq(digits, 1, Len(digits) - 1))
         + (CHOOSE n \in 0..9 : DigitChars[n + 1] = digits[Len(digits)])

\* re.match(r'^(\d+)\.\s+([A-Z\s&]+):', line.strip()): digits, a period,
\* whitespace, title characters up to a colon. group(1) as int, group(2)
\* stripped
MatchHeader(line) ==
    LET s == Strip(line)
        d == DigitRun(s)
        rest == SubSeq(s, d + 2, Len(s))
        r == TitleRun(rest)
    IN  IF /\ d >= 1 /\ Len(s) > d /\ s[d + 1] = "."
           /\ r >= 2 /\ IsSpace(rest[1])
           /\ Len(rest) > r /\ rest[r + 1] = ":"
        THEN [matched |-> TRUE, section_number |-> ToInt(SubSeq(s, 1, d)),
              section_title |-> Strip(SubSeq(rest, 1, r))]
        ELSE [matched |-> FALSE, section_number |-> 0, section_title |-> <<>>]

Section(number, title, content) ==
    [section_number |-> number, section_title |-> title, content |-> content]

\* '\n'.join(current_content).strip() into the section that ends
CloseSection(current, current_content) ==
    Section(current.section_number, current.section_title,
            Strip(JoinTexts(current_content, <<"\n">>)))

\* the loop of detect_sections over the lines; `open` says that
\* current_section is set
RECURSIVE DetectLoop(_, _, _, _, _)
DetectLoop(lines, sections, open, current, current_content) ==
    IF lines = <<>>
    THEN IF open THEN Append(sections, CloseSection(current, current_content))
         ELSE sections
    ELSE LET line == Head(lines)
             m == MatchHeader(line)
         IN  IF m.matched
             THEN DetectLoop(Tail(lines),
                             IF open
                             THEN Append(sections, CloseSection(current, current_content))
                             ELSE sections,
                             TRUE,
                             Section(m.section_number, m.section_title, <<>>),
                             <<line>>)
             ELSE DetectLoop(Tail(lines), sections, open, current,
                             IF open THEN Append(current_content, line)
                             ELSE current_content)

\* DocumentChunker.detect_sections
DetectSections(text) ==
    LET sections == DetectLoop(SplitLines(text), <<>>, FALSE,
                               Section(0, <<>>, <<>>), <<>>)
    IN  IF sections = <<>>
        THEN <<Section(1, <<"D", "o", "c", "u", "m", "e", "n", "t">>, text)>>
        ELSE sections

\* text_splitter.split_text(content), a call into the langchain library:
\* pieces of at most chunk_size characters, in the order of the text (here
\* consecutive pieces, without overlap)
RECURSIVE SplitText(_)
SplitText(content) ==
    IF Len(content) <= ChunkSize THEN <<content>>
    ELSE <<SubSeq(content, 1, ChunkSize)>>
            \o SplitText(SubSeq(content, ChunkSize + 1, Len(content)))

\* index of the last occurrence of character c in s, 0 when there is none
RECURSIVE LastIndex(_, _)
LastIndex(s, c) ==
    IF s = <<>> THEN 0
    ELSE IF s[Len(s)] = c THEN Len(s)
    ELSE LastIndex(SubSeq(s, 1, Len(s) - 1), c)

\* Path(file_name).stem: the name without its last suffix
Stem(file_name) ==
    LET i == LastIndex(file_name, ".") IN
    IF i <= 1 THEN file_name ELSE SubSeq(file_name, 1, i - 1)

\* f"{Path(file_name).stem}_s{section['section_number']}_c{idx}"
ChunkId(file_name, section_number, idx) ==
    Stem(file_name) \o <<"_", "s">> \o Decimal(section_number)
        \o <<"_", "c">> \o Decimal(idx)

\* DocumentChunker.chunk_section: the Documents of one section
ChunkSection(section, file_name) ==
    LET content == section.content
        pieces == IF Len(content) <= ChunkSize THEN <<content>>
                  ELSE SplitText(content)
    IN  [i \in 1..Len(pieces) |->
            [page_content |-> pieces[i],
             file_name |-> file_name,
             section_number |-> section.section_number,
             section_title |-> section.section_title,
             chunk_id |-> ChunkId(file_name, section.section_number, i - 1),
             chunk_index |-> i - 1,
             total_chunks |-> Len(pieces)]]

\* all_chunks.extend(chunks) over the sections
RECURSIVE ExtendAll(_, _)
ExtendAll(sections, file_name) ==
    IF sections = <<>> THEN <<>>
    ELSE ChunkSection(Head(sections), file_name) \o ExtendAll(Tail(sections), file_name)

\* DocumentChunker.chunk_document
ChunkDocument(text, file_name) == ExtendAll(DetectSections(text), file_name)

\* collection.upsert of one chunk: the entry of its id is replaced
Upsert(st, chunk) ==
    {c \in st : c.chunk_id # chunk.chunk_id} \cup {chunk}

\* process_single_document up to its await: the file is read and chunked, and
\* one embed_and_store_chunk task is made per chunk; a file of whitespace
\* only raises at `chunk.metadata['file_hash'] = file_hash` (file_hash unset)
ProcessSingleDocument ==
    /\ \E f \in files :
        /\ files' = files \ {f}
        /\ IF Strip(f.text) = <<>>
           THEN UNCHANGED <<tasks, chunks>>
           ELSE LET new == ChunkDocument(f.text, f.name)
                IN  /\ chunks' = chunks \o new
                    /\ tasks' = tasks \cup ((Len(chunks) + 1)..(Len(chunks) + Len(new)))
    /\ UNCHANGED <<apiVars, store, moved>>

\* one embed_and_store_chunk finishes: its chunk is upserted under its id
EmbedAndStoreChunk ==
    /\ \E i \in tasks :
        /\ store' = Upsert(store, chunks[i])
        /\ tasks' = tasks \ {i}
    /\ UNCHANGED <<apiVars, files, chunks, moved>>

\* the end of process_single_document: all tasks of the file are done, the
\* file is moved to processed_docs
MoveFile ==
    /\ \E i \in 1..Len(chunks) :
        /\ chunks[i].file_name \notin moved
        /\ \A j \in tasks : chunks[j].file_name # chunks[i].file_name
        /\ moved' = moved \cup {chunks[i].file_name}
    /\ UNCHANGED <<apiVars, files, tasks, chunks, store>>

\* the texts of the documents: two numbered sections, two sections with the
\* same number, no section, a section longer than one chunk, whitespace
DocTexts ==
    {<<"1", ".", " ", "A", ":", "\n", "x", "\n", "2", ".", " ", "B", ":", "\n", "y">>,
     <<"1", ".", " ", "A", ":", "\n", "x", "\n", "1", ".", " ", "B", ":", "\n", "y">>,
     <<"x", " ", "y">>,
     <<"3", ".", " ", "A", " ", "&", " ", "B", ":", " ", "x", "\n", "y", " ", "z">>,
     <<" ", "\n">>}

FileNames == {<<"a", ".", "t", "x", "t">>, <<"b", ".", "t", "x", "t">>}

\* the folders ingestion may find: files of different names
Corpora ==
    UNION {{{[name |-> n, text |-> t[n]] : n \in N} : t \in [N -> DocTexts]} :
              N \in SUBSET FileNames \ {{}}}

InitIngest ==
    /\ IdleAfter(0)
    /\ file = AbsentFile
    /\ collection = {}
    /\ files \in Corpora
    /\ tasks = {}
    /\ chunks = <<>>
    /\ store = {}
    /\ moved = {}

NextIngest ==
    \/ ProcessSingleDocument
    \/ EmbedAndStoreChunk
    \/ MoveFile

SpecIngest == InitIngest /\ [][NextIngest]_vars

(***************************************************************************)
(* Vocabulary of the properties.                                           *)
(***************************************************************************)
\* the whitespace-separated words of a text: the places where a word starts
NumWords(s) ==
    Cardinality({i \in 1..Len(s) : ~IsSpace(s[i]) /\ (i = 1 \/ IsSpace(s[i - 1]))})

\* the positions in the call history of the gateway calls of Stage A, of Stage B
StageACalls ==
    {i \in 1..Len(calls) :
        calls[i].api = "complete" /\ calls[i].arg[1].content = ContextualizerPrompt}
StageBCalls ==
    {i \in 1..Len(calls) :
        calls[i].api = "complete" /\ calls[i].arg[1].content = DecomposerPrompt}

\* process_query has returned
Rewritten == pc = "retrieve" /\ context = <<>> /\ qi = 1

RECURSIVE Flatten(_)
Flatten(lists) ==
    IF lists = <<>> THEN <<>> ELSE Head(lists) \o Flatten(Tail(lists))

\* the documents a context list holds, in order
Evidence(ctx) == Flatten(Flatten(ctx))

NoDuplicates(seq) == \A i, j \in 1..Len(seq) : seq[i] = seq[j] => i = j

\* user and assistant in turn, a user message first
AlternatesFromUser(msgs) ==
    \A i \in 1..Len(msgs) :
        msgs[i].role = (IF i % 2 = 1 THEN "user" ELSE "assistant")

RetrievalErrors ==
    {"create_embeddings raised", "semantic query raised", "keyword query raised"}

(***************************************************************************)
(* The properties.                                                         *)
(***************************************************************************)
\* C1: process_query always returns, whatever the two gateway calls do, and
\* its result is a non-empty list; when every gateway call it made raised,
\* the result is the one-element list holding the raw query.
C1_NonEmptyAndTotalFallback ==
    Rewritten =>
        /\ rephrased_queries # <<>>
        /\ (\A i \in 1..Len(calls) : ~calls[i].ok)
              => rephrased_queries = <<request.user_message>>

\* C1 happens: Stage A and Stage B were both called, both raised, and the raw
\* query came back alone.
C1_Witness ==
    /\ Rewritten
    /\ Len(calls) = 2 /\ ~calls[1].ok /\ ~calls[2].ok
    /\ request.user_message # <<>>
    /\ rephrased_queries = <<request.user_message>>

\* C2: a turn that does not end with the 200 response ends with HTTP 500, and a
\* turn that ends with HTTP 500 leaves the file as it found it.
C2_FailedTurnPersistsNothing ==
    [][/\ (pc \notin {"idle", "respond"} /\ pc' = "idle") => response'.status = 500
       /\ response'.status = 500 => file' = fileAtStart]_vars

\* C2 happens: the final completion raised in a turn on a session that has a
\* record on file.
C2_Witness ==
    /\ pc = "idle"
    /\ response.status = 500
    /\ response.detail = "complete raised"
    /\ file.kind = "record"

\* C3: the conversation reloaded after N successful turns in a row on one
\* session_id holds exactly 2*N messages, user and assistant in turn.
C3_TwoMessagesPerTurn ==
    (pc = "process_query" /\ file.kind = "record" /\ file.session_id = session_id)
        => /\ Len(conversation_history) = 2 * okTurns
           /\ AlternatesFromUser(conversation_history)

\* C4: no step of a turn on one session_id changes what load_conversation
\* returns for another session_id.
C4_OtherSessionsKept ==
    [][\A s \in AllSids :
          s # session_id => LoadConversation(file', s) = LoadConversation(file, s)]_vars

\* C5: the evidence collected in a turn holds no chunk twice.
C5_NoDuplicateEvidence == NoDuplicates(Evidence(context))

\* C6: a raising embedding call or store query never ends the turn.
C6_RetrievalFailureTolerated ==
    ~(response.status = 500 /\ response.detail \in RetrievalErrors)

\* C7: when the system message and the last 6 history messages are more than 2
\* messages, the prompt is that sequence without its second message, followed
\* by the final user message.
C7_DropsIndexOne ==
    pc = "complete" =>
        LET full == <<Msg("system", SystemPrompt)>>
                        \o LastN(conversation_history, HistoryWindow)
        IN  Len(full) > 2 =>
                SubSeq(messages, 1, Len(messages) - 1)
                    = <<full[1]>> \o SubSeq(full, 3, Len(full))

\* C8: the prompt sent to the chat completion gateway starts with the system
\* message, in every turn.
C8_SystemMessageFirst ==
    pc = "complete" => messages[1] = Msg("system", SystemPrompt)

\* C9: with an empty history, or with a query of more than 10 words, Stage A
\* returns the raw query and calls the gateway not at all.
C9_SkipReturnsRawQuery ==
    (Rewritten /\ (conversation_history = <<>>
                      \/ NumWords(request.user_message) > 10))
        => /\ contextualized_query = request.user_message
           /\ StageACalls = {}

\* C9 happens: a query of 11 words with a history went through unchanged.
C9_Witness ==
    /\ Rewritten
    /\ conversation_history # <<>>
    /\ NumWords(request.user_message) = 11
    /\ contextualized_query = request.user_message
    /\ StageACalls = {}

\* C10: when the gateway call of Stage A raises, Stage A returns the raw query
\* and process_query goes on to Stage B.
C10_ContextualizeFallback ==
    (Rewritten /\ \E i \in StageACalls : ~calls[i].ok)
        => /\ contextualized_query = request.user_message
           /\ \E j \in StageBCalls : j > 1 /\ calls[j].arg[2].content = request.user_message

\* C10 happens: Stage A raised on a query with blanks around it, and Stage B
\* then split what it was given.
C10_Witness ==
    /\ Rewritten
    /\ \E i \in StageACalls : ~calls[i].ok
    /\ Strip(request.user_message) # request.user_message
    /\ contextualized_query = request.user_message
    /\ Len(rephrased_queries) = 2

\* C11: Stage B is called with the query Stage A returned, also when the
\* gateway call of Stage A raised; when the gateway call of Stage B raises,
\* the sub-queries are that query alone, character for character.
C11_DecomposeFallback ==
    Rewritten =>
        /\ \A i \in StageACalls : ~calls[i].ok => \E j \in StageBCalls : j > i
        /\ \E j \in StageBCalls :
              /\ calls[j].arg[2] = Msg("user", contextualized_query)
              /\ ~calls[j].ok => rephrased_queries = <<contextualized_query>>

\* C11 happens: Stage A rewrote the query, Stage B raised, and the rewritten
\* query came back alone.
C11_Witness ==
    /\ Rewritten
    /\ \E i \in StageACalls : calls[i].ok
    /\ \E j \in StageBCalls : ~calls[j].ok
    /\ contextualized_query # request.user_message
    /\ rephrased_queries = <<contextualized_query>>

\* the response Stage B got, when its gateway call returned
StageBReturned(text) ==
    \E j \in StageBCalls : calls[j].ok /\ calls[j].result = text

\* the first character of a line is a digit or a dash
BeginsWithMarker(line) == line # <<>> /\ (IsDigit(line[1]) \/ line[1] = "-")

\* C12: a response of k >= 1 numbered lines "<i>. <text_i>" gives exactly the
\* k texts, in the order of the lines.
C12_NumberedLinesInOrder ==
    Rewritten =>
        \A texts \in ItemLists \cup {LongItems} :
            StageBReturned(NumberedList(texts)) => rephrased_queries = texts

\* C12 happens: two numbered items came back as two sub-queries, the first
\* with a period in its text.
C12_Witness ==
    /\ Rewritten
    /\ StageBReturned(NumberedList(<<<<"a", ".", "b">>, <<"2", " ", "b">>>>))
    /\ rephrased_queries = <<<<"a", ".", "b">>, <<"2", " ", "b">>>>

\* C13: a response that lists its items, numbered or as hyphen bullets, gives
\* exactly the item texts: the marker and its period are gone, nothing else is.
C13_MarkerRemoved ==
    Rewritten =>
        \A texts \in ItemLists :
            (StageBReturned(NumberedList(texts)) \/ StageBReturned(BulletList(texts)))
                => rephrased_queries = texts

\* C14 as the spec states it: when no line of the response has a digit or a
\* dash as its first character, the sub-queries are the trimmed response alone.
C14_NoMarkerAtLineStart ==
    Rewritten =>
        \A j \in StageBCalls :
            (calls[j].ok /\ \A n \in 1..Len(SplitLines(calls[j].result)) :
                                ~BeginsWithMarker(SplitLines(calls[j].result)[n]))
                => rephrased_queries = <<Strip(calls[j].result)>>

\* C14: when no line of the response, trimmed of the whitespace around it,
\* begins with a digit or a dash, the sub-queries are the trimmed response alone.
C14_NoMarkerAtTrimmedLineStart ==
    Rewritten =>
        \A j \in StageBCalls :
            (calls[j].ok /\ \A n \in 1..Len(SplitLines(calls[j].result)) :
                                ~BeginsWithMarker(Strip(SplitLines(calls[j].result)[n])))
                => rephrased_queries = <<Strip(calls[j].result)>>

\* C14 happens: a response of one line without marker, with whitespace
\* around it, came back trimmed.
C14_Witness ==
    /\ Rewritten
    /\ StageBReturned(<<" ", "a">>)
    /\ rephrased_queries = <<<<"a">>>>

\* the positions in the call history of the store queries without and with
\* query_texts
SemanticCalls ==
    {i \in 1..Len(calls) : calls[i].api = "query" /\ calls[i].arg.query_texts = <<>>}
KeywordCalls ==
    {i \in 1..Len(calls) : calls[i].api = "query" /\ calls[i].arg.query_texts # <<>>}

\* the n-th position of a set of positions
NthOf(S, n) == CHOOSE i \in S : Cardinality({j \in S : j <= i}) = n

\* C15: after the first n sub-queries the context is, for sub-query 1..n in
\* the rewriter's order, what its semantic query returned and then what its
\* keyword query returned; the calls were made one after the other in that
\* order, so the order depends on nothing but what the store returned.
C15_EvidenceInSubQueryOrder ==
    pc = "retrieve" =>
        /\ Len(context) = 2 * (qi - 1)
        /\ Cardinality(SemanticCalls) = qi - 1
        /\ Cardinality(KeywordCalls) = qi - 1
        /\ \A i \in 1..(qi - 1) :
              LET s == NthOf(SemanticCalls, i)
                  k == NthOf(KeywordCalls, i)
              IN  /\ calls[s].arg.query_embeddings = <<Embedding(rephrased_queries[i])>>
                  /\ calls[k].arg.query_texts = <<rephrased_queries[i]>>
                  /\ s < k
                  /\ i > 1 => NthOf(KeywordCalls, i - 1) < s
                  /\ context[2 * i - 1] = calls[s].result.documents
                  /\ context[2 * i] = calls[k].result.documents

\* C15 happens: two sub-queries were served from a collection of three
\* chunks, which the store ranked differently for the two.
C15_Witness ==
    /\ pc = "retrieve"
    /\ qi = 3
    /\ Len(context) = 4
    /\ Len(context[1][1]) = 3 /\ Len(context[2][1]) = 1
    /\ context[1] # context[3]
    /\ context[2] # context[4]

\* the prompt without its final message
PromptBody == SubSeq(messages, 1, Len(messages) - 1)

\* the messages of a history at its last 6 positions
RecentHistory(h) ==
    LET older == IF Len(h) > 6 THEN Len(h) - 6 ELSE 0
    IN  [i \in 1..(Len(h) - older) |-> h[older + i]]

\* x is y with some of its elements left out
RECURSIVE IsSubsequence(_, _)
IsSubsequence(x, y) ==
    IF x = <<>> THEN TRUE
    ELSE IF y = <<>> THEN FALSE
    ELSE IF Head(x) = Head(y) THEN IsSubsequence(Tail(x), Tail(y))
    ELSE IsSubsequence(x, Tail(y))

\* the number of messages before the final one that are not system messages
RetainedHistory == Cardinality({i \in 1..Len(PromptBody) : PromptBody[i].role # "system"})

\* C16: with no evidence retrieved the prompt holds a system message, ends
\* with a user message, and holds no message of empty content, whatever the
\* history.
C16_ZeroEvidencePrompt ==
    (pc = "complete" /\ Evidence(context) = <<>>) =>
        /\ \E i \in 1..Len(messages) : messages[i].role = "system"
        /\ messages[Len(messages)].role = "user"
        /\ \A i \in 1..Len(messages) : messages[i].content # <<>>

\* C17: what the prompt holds before its final message, the system message
\* of the assembler apart, are messages at the last 6 positions of the
\* history, unchanged and in the order of the history, and at most 6 of them.
C17_HistoryFromLastSix ==
    pc = "complete" =>
        \/ /\ IsSubsequence(PromptBody, RecentHistory(conversation_history))
           /\ Len(PromptBody) <= 6
        \/ /\ PromptBody # <<>>
           /\ PromptBody[1] = Msg("system", SystemPrompt)
           /\ IsSubsequence(Tail(PromptBody), RecentHistory(conversation_history))
           /\ Len(PromptBody) <= 7

\* C17 happens: of a history of 8 messages the prompt holds the last 6, the
\* third message of the history first.
C17_Witness ==
    /\ pc = "complete"
    /\ Len(conversation_history) = 8
    /\ Len(PromptBody) = 6
    /\ PromptBody[1] = conversation_history[3]
    /\ PromptBody[6] = conversation_history[8]

\* C18 as the spec states it: of a history of more than 6 messages the
\* prompt retains at most 2.
C18_AtMostTwoRetained ==
    (pc = "complete" /\ Len(conversation_history) > 6) => RetainedHistory <= 2

\* C18: of a history of more than 6 messages the prompt retains at most 6.
C18_AtMostSixRetained ==
    (pc = "complete" /\ Len(conversation_history) > 6) => RetainedHistory <= 6

\* C18 happens: of a history of 7 messages the prompt retains 6.
C18_Witness ==
    /\ pc = "complete"
    /\ Len(conversation_history) = 7
    /\ RetainedHistory = 6

\* text d stands in text c somewhere before position n
OccursBefore(d, c, n) ==
    \E i \in 1..n : i + Len(d) - 1 < n /\ SubSeq(c, i, i + Len(d) - 1) = d

\* C19: the last message of the prompt has role user; its content starts
\* with the context header, holds every document of the evidence, and ends
\* with "Question: " and the user_message of the request, character for
\* character, whatever the rewriter made of it and whatever was retrieved.
C19_FinalUserMessage ==
    pc = "complete" =>
        LET last == messages[Len(messages)]
            c == last.content
            n == Len(request.user_message)
            docs == Evidence(context)
        IN  /\ last.role = "user"
            /\ Len(c) > n + 1
            /\ c[1] = "Context from HR documents:"
            /\ \A d \in 1..Len(docs) : OccursBefore(docs[d], c, Len(c) - n)
            /\ c[Len(c) - n] = "Question: "
            /\ SubSeq(c, Len(c) - n + 1, Len(c)) = request.user_message

\* C19 happens: the rewriter changed the question, nothing was retrieved,
\* and the prompt is assembled.
C19_Witness ==
    /\ pc = "complete"
    /\ contextualized_query # request.user_message
    /\ rephrased_queries # <<request.user_message>>
    /\ Evidence(context) = <<>>
    /\ messages[Len(messages)].role = "user"

\* the steps of a turn keep to its identifier: the conversation loaded has
\* it, no later step changes it, the record saved has it, the response has it
TurnKeepsSessionId ==
    /\ (pc = "idle" /\ pc' # "idle") => conversation'.session_id = session_id'
    /\ (pc # "idle" /\ pc' # "idle") => session_id' = session_id
    /\ (pc = "save" /\ pc' = "respond")
          => file'.kind = "record" /\ file'.session_id = session_id
    /\ (pc = "respond" /\ pc' = "idle")
          => response'.status = 200 /\ response'.session_id = session_id

\* the identifier of the turn that starts is none a client sends, none made
\* before, not the one on file and not the one of the last response
TurnStartsWithFreshId ==
    /\ session_id' \notin RequestSids
    /\ \A k \in 1..uuids : session_id' # UuidSid(k)
    /\ file.kind = "record" => session_id' # file.session_id
    /\ session_id' # response.session_id

\* C20 as the spec states it: a turn whose request has a session_id, the
\* empty string included, runs under that identifier; a turn whose request
\* has none runs under a fresh one.
C20_CarriedSessionIdKept ==
    [][/\ TurnKeepsSessionId
       /\ (pc = "idle" /\ pc' # "idle") =>
             IF request'.session_id # NoSid
             THEN session_id' = request'.session_id
             ELSE TurnStartsWithFreshId]_vars

\* C20: a turn whose request has a session_id other than the empty string
\* runs under that identifier; a turn whose request has none, or the empty
\* string, runs under a fresh one.
C20_NonEmptySessionIdKept ==
    [][/\ TurnKeepsSessionId
       /\ (pc = "idle" /\ pc' # "idle") =>
             IF request'.session_id \notin {NoSid, EmptySid}
             THEN session_id' = request'.session_id
             ELSE TurnStartsWithFreshId]_vars

\* C20 happens: the second turn without session_id of a behaviour has saved
\* its conversation under its own identifier.
C20_Witness ==
    /\ pc = "respond"
    /\ request.session_id = NoSid
    /\ uuids = 2
    /\ session_id \notin RequestSids
    /\ file.kind = "record" /\ file.session_id = session_id

\* x is the start of y
IsPrefix(x, y) == Len(x) <= Len(y) /\ SubSeq(y, 1, Len(x)) = x

\* C22: the messages on file for a session before a turn saves are the start
\* of the messages on file after it: none is removed, moved or changed.
C22_PersistedIsPrefix ==
    [][(pc = "save" /\ file.kind = "record" /\ file.session_id = session_id)
          => IsPrefix(file.messages, file'.messages)]_vars

\* C23: the record on file holds no system message and no context block, and
\* the user message saved by a turn is the user_message of its request.
C23_PersistedIsConversation ==
    (pc = "respond" /\ file.kind = "record") =>
        /\ \A i \in 1..Len(file.messages) :
              /\ file.messages[i].role # "system"
              /\ ~OccursBefore(<<"Context from HR documents:">>, file.messages[i].content,
                               Len(file.messages[i].content) + 2)
        /\ Len(file.messages) >= 2
        /\ file.messages[Len(file.messages) - 1] = Msg("user", request.user_message)

C25_LabelledSources ==
    pc = "complete" =>
        LET c == messages[Len(messages)].content
            docs == Evidence(context)
        IN  \A i \in 1..Len(docs) :
                \E title \in {<<"Unknown">>, <<"section of ">> \o docs[i]} :
                    OccursBefore(<<"[Source ">> \o Decimal(i) \o <<" - ">> \o title
                                     \o <<"]", "\n">> \o docs[i],
                                 c, Len(c) + 1)

\* C26: the conversation a turn starts with is the record on file when that
\* record has the session_id of the turn, and a new conversation of that
\* session_id without messages in every other case; loading ends no turn
\* with an error and leaves the file as it was.
C26_LoadConversation ==
    [][(pc = "idle" /\ pc' # "idle") =>
          /\ pc' = "process_query"
          /\ response'.status # 500
          /\ file' = file
          /\ conversation'.session_id = session_id'
          /\ IF file.kind = "record" /\ file.session_id = session_id'
             THEN conversation'.messages = file.messages
             ELSE conversation'.messages = <<>>
          /\ conversation_history' = conversation'.messages]_vars

\* C26 happens: a turn has started on a session while the file holds the
\* record of another session.
C26_Witness ==
    /\ pc = "process_query"
    /\ file.kind = "record"
    /\ file.session_id # session_id
    /\ file.messages # <<>>
    /\ conversation = [session_id |-> session_id, messages |-> <<>>]

\* the calls of a turn that has saved: Stage A at most once, Stage B once,
\* for each sub-query in order the embedding call, the semantic query and the
\* keyword query with the embedding the first returned, the answer completion
CallsInTurnOrder ==
    LET a == Cardinality(StageACalls)
        n == Len(rephrased_queries)
    IN  /\ a <= 1
        /\ a = 1 => StageACalls = {1}
        /\ StageBCalls = {a + 1}
        /\ calls[a + 1].arg[2] = Msg("user", contextualized_query)
        /\ Len(calls) = a + 1 + 3 * n + 1
        /\ \A i \in 1..n :
              LET e == a + 1 + 3 * (i - 1) + 1
              IN  /\ calls[e].api = "embed"
                  /\ calls[e].arg = <<rephrased_queries[i]>>
                  /\ calls[e + 1].api = "query"
                  /\ calls[e + 1].arg.query_texts = <<>>
                  /\ calls[e + 1].arg.query_embeddings = <<calls[e].result[1]>>
                  /\ calls[e + 2].api = "query"
                  /\ calls[e + 2].arg.query_texts = <<rephrased_queries[i]>>
                  /\ calls[e + 2].arg.query_embeddings = <<calls[e].result[1]>>
        /\ LET last == calls[Len(calls)]
           IN  /\ last.api = "complete" /\ last.ok
               /\ last.result = bot_response
               /\ Append(last.arg, Msg("assistant", bot_response)) = messages

\* C27: a turn that reaches its response has loaded the conversation first,
\* then made its calls in the order Stage A, Stage B, per sub-query embedding,
\* semantic query, keyword query, then the answer completion; it has saved
\* once, after the answer completion returned, and responds after the save.
C27_StepsInOrder ==
    [][/\ (pc = "idle" /\ pc' # "idle")
            => calls' = <<>> /\ conversation' = LoadConversation(file, session_id')
       /\ pc = "respond" => CallsInTurnOrder
       /\ file' # file => pc = "save" /\ pc' = "respond"
       /\ pc' = "respond"
            => /\ pc = "save"
               /\ calls[Len(calls)].api = "complete" /\ calls[Len(calls)].ok
               /\ calls[Len(calls)].arg[1].content # DecomposerPrompt
               /\ file' = SaveConversation(conversation')
       /\ response'.status = 200 => pc = "respond" /\ file' = file]_vars

\* C27 happens: a turn with a Stage A call and two sub-queries has saved and
\* is about to respond.
C27_Witness ==
    /\ pc = "respond"
    /\ Cardinality(StageACalls) = 1
    /\ Len(rephrased_queries) = 2
    /\ Len(calls) = 9
    /\ file.kind = "record" /\ file.session_id = session_id

\* C28: the record on file never holds more than 8 messages; a turn saves at
\* most 6 messages before its own two, the user message and the reply.
C28_PersistedAtMostEight ==
    /\ file.kind = "record" => Len(file.messages) <= 8
    /\ pc = "respond" =>
          LET n == Len(file.messages)
          IN  /\ n >= 2 /\ n - 2 <= 6
              /\ file.messages[n - 1].role = "user"
              /\ file.messages[n] = Msg("assistant", bot_response)

\* C28 happens: a turn on a session with a record of 7 messages has saved a
\* record of 8.
C28_Witness ==
    /\ pc = "respond"
    /\ Len(conversation_history) = 7
    /\ Len(file.messages) = 8

\* C29: for a raw query that is not empty, no sub-query process_query
\* returns is empty or whitespace only, whatever the gateway returned.
C29_NoBlankSubQuery ==
    (Rewritten /\ request.user_message # <<>>) =>
        \A i \in 1..Len(rephrased_queries) : Strip(rephrased_queries[i]) # <<>>

\* both workers loaded the conversation before either began to save
Overlapped ==
    \/ peer.seenAtOpen \in {"loaded", "answered"}
    \/ peer.sawAtOpen \in {"process_query", "retrieve", "complete", "save"}

\* C21: when two turns on one session_id overlap and both have saved, the
\* file holds exactly the record of the turn that wrote last.
C21_LastWriterWins ==
    (pc = "respond" /\ peer.pc = "done" /\ peer.session_id = session_id /\ Overlapped)
        => file = RecordFile(IF peer.wroteLast
                             THEN [session_id |-> peer.session_id,
                                   messages |-> peer.messages]
                             ELSE conversation)

\* C30: any two chunks ingestion produces have different chunk ids, and so
\* the store holds one entry per chunk upserted.
C30_ChunkIdsDistinct ==
    /\ \A i, j \in 1..Len(chunks) : i # j => chunks[i].chunk_id # chunks[j].chunk_id
    /\ Cardinality(store) = Len(chunks) - Cardinality(tasks)

====
